---- MODULE Spec2Model ----
(***************************************************************************)
(* Model of mtexts: the content-extraction dispatcher and its extractors   *)
(* (extractors.py), the payload fetchers (google_drive.py), the summary    *)
(* call (ai_summary.py), the file-processing loop (main.py) and the        *)
(* report assembler (markdown_generator.py).                               *)
(*                                                                         *)
(* A text (Python str) is a sequence of fragments; a fragment is a TLA+    *)
(* string: one character of decoded payload ("h", " ", "\n", "U+FFFD") or  *)
(* a literal piece of a message.  A payload (Python bytes) is a sequence   *)
(* of byte values.  A call outcome is a record [kind, value]: kind is      *)
(* "return" with the returned text, or "raise" with <<str(e)>>.            *)
(*                                                                         *)
(* Five specifications share the variables: SpecDispatch (one call of      *)
(* extract_file_content), Spec (the loop of main), SpecSummary (one call   *)
(* of generate_content_summary), SpecRetry (one call of                    *)
(* retry_with_exponential_backoff) and SpecPath (one call of               *)
(* get_file_path).                                                         *)
(***************************************************************************)
EXTENDS Integers, Sequences, FiniteSets, TLC

VARIABLES
    DOCX_AVAILABLE,   \* extractors.py: import docx succeeded
    PPTX_AVAILABLE,   \* extractors.py: import pptx succeeded
    BS4_AVAILABLE,    \* extractors.py: import bs4 succeeded
    file_info,        \* dispatcher run: the descriptor handed to extract_file_content
    world,            \* dispatcher run: what the fetcher, libraries and file system did
    ext,              \* dispatcher run: outcome, call log and temporary files left
    phase,            \* dispatcher run: "idle", "start", "returned"
    files,            \* main: the listing returned by list_files
    idx,              \* main: 1-based position of the loop in files
    results,          \* main: the list of document entries
    pc,               \* main: "off", "loop", "assemble", "done", "aborted", "failed"
    history,          \* main: per processed position, the extracted content and the branch taken
    toc,              \* assembler: names written to the table of contents, in order
    sections,         \* assembler: document entries written as sections, in order
    summary_content,  \* summarizer run: the text handed to generate_content_summary
    summary_client,   \* summarizer run: what the OpenAI client did
    summary_out,      \* summarizer run: outcome and number of remote calls
    summary_pc,       \* summarizer run: "off", "start", "returned"
    max_retries,      \* retry run: argument of retry_with_exponential_backoff
    initial_delay,    \* retry run: argument of retry_with_exponential_backoff
    retries,          \* retry run: the local counter
    calls,            \* retry run: the outcome of every call of func, in order
    sleeps,           \* retry run: the arguments of time.sleep, in order
    retry_out,        \* retry run: what the function returned or raised
    retry_pc,         \* retry run: "off", "loop", "returned", "raised"
    drive,            \* path run: the answer of files().get for every folder id
    path_file_info,   \* path run: the descriptor handed to get_file_path
    path_parts,       \* path run: the local list
    current_parent,   \* path run: the local variable
    lookups,          \* path run: the answers of files().get so far, in order
    path_out,         \* path run: the returned string
    path_pc           \* path run: "off", "start", "loop", "break", "returned"

extractVars == <<file_info, world, ext, phase>>
mainVars == <<files, idx, results, pc, history, toc, sections>>
libVars == <<DOCX_AVAILABLE, PPTX_AVAILABLE, BS4_AVAILABLE>>
summaryVars == <<summary_content, summary_client, summary_out, summary_pc>>
retryVars == <<max_retries, initial_delay, retries, calls, sleeps, retry_out, retry_pc>>
pathVars == <<drive, path_file_info, path_parts, current_parent, lookups, path_out, path_pc>>
vars == <<libVars, extractVars, mainVars, summaryVars, retryVars, pathVars>>

\* ------------------------------------------------------------------ bounds
MaxLen == 2
MaxParts == 2
MaxShapes == 2
MaxFiles == 2
MaxHtmlLen == 4
MaxRetries == 4
MaxFolders == 2

\* ------------------------------------------------------------ basic values
Ret(v) == [kind |-> "return", value |-> v]
Raise(d) == [kind |-> "raise", value |-> <<d>>]

NoneObj == [isNone |-> TRUE, bytes |-> <<>>]
BytesIO(b) == [isNone |-> FALSE, bytes |-> b]

RECURSIVE SeqsUpTo(_, _)
SeqsUpTo(S, n) ==
    IF n = 0 THEN {<<>>}
    ELSE LET shorter == SeqsUpTo(S, n - 1)
         IN shorter \cup {Append(s, x) : s \in {t \in shorter : Len(t) = n - 1}, x \in S}

RECURSIVE Concat(_)
Concat(ss) == IF ss = <<>> THEN <<>> ELSE Head(ss) \o Concat(Tail(ss))

\* sep.join(parts)
RECURSIVE Join(_, _)
Join(parts, sep) ==
    IF parts = <<>> THEN <<>>
    ELSE IF Len(parts) = 1 THEN parts[1]
    ELSE parts[1] \o sep \o Join(Tail(parts), sep)

\* dict.get(key, default)
Get(d, key, default) == IF key \in DOMAIN d THEN d[key] ELSE default

\* ------------------------------------------------------------------ bytes
ByteValues == {32, 104, 169, 195, 255}
Payloads == SeqsUpTo(ByteValues, MaxLen)

\* a unit of an HTML payload above 1000 stands for the ASCII bytes of one tag
TagUnits == 1001..1005
TagText(u) ==
    CASE u = 1001 -> "<script>"
      [] u = 1002 -> "</script>"
      [] u = 1003 -> "<style>"
      [] u = 1004 -> "</style>"
      [] u = 1005 -> "<p>"
HtmlUnits == {10, 32, 97, 104} \cup TagUnits
HtmlPayloads == SeqsUpTo(HtmlUnits, MaxHtmlLen)

\* the character with a code point
CharOf(cp) ==
    CASE cp = 10 -> "\n"
      [] cp = 32 -> " "
      [] cp = 97 -> "a"
      [] cp = 104 -> "h"
      [] cp = 233 -> "U+00E9"
      [] OTHER -> "U+FFFD"

\* a well-formed UTF-8 sequence starts at the head of b: one byte below 128,
\* or a lead byte 0xC2..0xDF followed by a continuation byte 0x80..0xBF
\* (the byte values drawn here form no longer sequence)
OneByte(b) == b[1] < 128
TwoBytes(b) == b[1] \in 194..223 /\ Len(b) >= 2 /\ b[2] \in 128..191

\* the UTF-8 decoder with errors='replace': a byte that starts no
\* well-formed sequence becomes U+FFFD and decoding resumes at the next byte
RECURSIVE utf8_replace(_)
utf8_replace(b) ==
    IF b = <<>> THEN <<>>
    ELSE IF b[1] \in TagUnits THEN <<TagText(b[1])>> \o utf8_replace(Tail(b))
    ELSE IF OneByte(b) THEN <<CharOf(b[1])>> \o utf8_replace(Tail(b))
    ELSE IF TwoBytes(b)
    THEN <<CharOf((b[1] - 192) * 64 + (b[2] - 128))>> \o utf8_replace(SubSeq(b, 3, Len(b)))
    ELSE <<"U+FFFD">> \o utf8_replace(Tail(b))

RECURSIVE utf8_valid(_)
utf8_valid(b) ==
    IF b = <<>> THEN TRUE
    ELSE IF b[1] \in TagUnits \/ OneByte(b) THEN utf8_valid(Tail(b))
    ELSE IF TwoBytes(b) THEN utf8_valid(SubSeq(b, 3, Len(b)))
    ELSE FALSE

\* bytes.decode('utf-8', errors=...)
decode(b, errors) ==
    IF errors = "strict" /\ ~utf8_valid(b)
    THEN Raise("'utf-8' codec can't decode byte")
    ELSE Ret(utf8_replace(b))

Whitespace == {" ", "\n"}
\* str.strip()
RECURSIVE lstrip(_)
lstrip(t) == IF t # <<>> /\ Head(t) \in Whitespace THEN lstrip(Tail(t)) ELSE t
RECURSIVE rstrip(_)
rstrip(t) ==
    IF t # <<>> /\ t[Len(t)] \in Whitespace THEN rstrip(SubSeq(t, 1, Len(t) - 1)) ELSE t
strip(t) == rstrip(lstrip(t))

\* truth value of a str
StrTruthy(t) == t # <<>>

\* truth value of the object a fetch returned: None is false; io.BytesIO
\* defines neither __bool__ nor __len__, so every BytesIO object is true
Truthy_nonempty(content) == ~content.isNone /\ content.bytes # <<>>
Truthy(content) == ~content.isNone

\* str.splitlines() for the line break "\n"
RECURSIVE splitlines(_)
splitlines(t) ==
    IF t = <<>> THEN <<>>
    ELSE LET brk == {i \in 1..Len(t) : t[i] = "\n"}
         IN IF brk = {} THEN <<t>>
            ELSE LET i == CHOOSE j \in brk : \A k \in brk : j <= k
                 IN <<SubSeq(t, 1, i - 1)>> \o splitlines(SubSeq(t, i + 1, Len(t)))

\* str.split("  ")
RECURSIVE split_double_space(_)
split_double_space(t) ==
    LET at == {i \in 1..(Len(t) - 1) : t[i] = " " /\ t[i + 1] = " "}
    IN IF at = {} THEN <<t>>
       ELSE LET i == CHOOSE j \in at : \A k \in at : j <= k
            IN <<SubSeq(t, 1, i - 1)>> \o split_double_space(SubSeq(t, i + 2, Len(t)))

\* f"[{prefix}{str(e)}]"
Marker(prefix, detail) == <<"[", prefix>> \o detail \o <<"]">>

\* try: body  except Exception as e: return f"[{prefix}{str(e)}]"
TryExcept_reraise(body, prefix) == body
TryExcept(body, prefix) ==
    IF body.kind = "raise" THEN Ret(Marker(prefix, body.value)) ELSE body

\* ---------------------------------------------------------------- fetchers
ExportMimes == {"text/plain", "text/csv", "application/pdf"}

\* download_file: the media request either delivers the bytes or raises;
\* the exception is logged and None is returned
download_file(w) ==
    [content |-> IF w.get_media.kind = "error" THEN NoneObj
                 ELSE BytesIO(w.get_media.bytes),
     log |-> << <<"get_media", "">> >>]

\* export_google_doc: same, for an export to mime_type
export_google_doc(w, mime_type) ==
    [content |-> IF w.export_media[mime_type].kind = "error" THEN NoneObj
                 ELSE BytesIO(w.export_media[mime_type].bytes),
     log |-> << <<"export_media", mime_type>> >>]

\* -------------------------------------------------------------- extractors
\* what an extractor did: its outcome, the calls it made in order, the
\* temporary files it left on disk, whether os.unlink raised
Done(out, log, tmp, unlink_failed) ==
    [out |-> out, log |-> log, tmp |-> tmp, unlink_failed |-> unlink_failed]

\* PyPDF2.PdfReader(stream): an empty stream is rejected, otherwise the
\* library either raises or delivers the pages
PdfReader(stream, w) ==
    IF stream.bytes = <<>> THEN [kind |-> "raise", detail |-> "Cannot read an empty file", pages |-> <<>>]
    ELSE w.PdfReader

extract_text_from_pdf_bytes_joined(pdf_bytes, w) ==
    LET reader == PdfReader(pdf_bytes, w)
        body == IF reader.kind = "raise" THEN Raise(reader.detail)
                ELSE Ret(Join(reader.pages, <<"\n", "\n">>))
    IN [out |-> TryExcept(body, "Error extracting PDF content: "),
        log |-> << <<"PdfReader", "">> >>]
extract_text_from_pdf_bytes(pdf_bytes, w) ==
    LET reader == PdfReader(pdf_bytes, w)
        text == Concat([i \in 1..Len(reader.pages) |-> reader.pages[i] \o <<"\n", "\n">>])
        body == IF reader.kind = "raise" THEN Raise(reader.detail) ELSE Ret(text)
    IN [out |-> TryExcept(body, "Error extracting PDF content: "),
        log |-> << <<"PdfReader", "">> >>]

\* extract_google_doc and extract_google_sheet differ in the export format
\* and in the message
ExportAndDecode(w, mime_type, prefix) ==
    LET ex == export_google_doc(w, mime_type)
        dec == decode(ex.content.bytes, "strict")
    IN IF Truthy(ex.content)
       THEN Done(TryExcept(dec, prefix), ex.log \o << <<"decode", "strict">> >>, {}, FALSE)
       ELSE Done(Ret(<<>>), ex.log, {}, FALSE)

extract_google_doc(w) == ExportAndDecode(w, "text/plain", "Error extracting Google Doc: ")

extract_google_sheet(w) == ExportAndDecode(w, "text/csv", "Error extracting Google Sheet: ")

extract_google_slides(w) ==
    LET prefix == "Error extracting Google Slides: "
        ex == export_google_doc(w, "text/plain")
        dec == decode(ex.content.bytes, "strict")
        pdf == export_google_doc(w, "application/pdf")
        fromPdf == extract_text_from_pdf_bytes(pdf.content, w)
    IN IF Truthy(ex.content)
       THEN Done(TryExcept(dec, prefix), ex.log \o << <<"decode", "strict">> >>, {}, FALSE)
       ELSE IF Truthy(pdf.content)
            THEN Done(TryExcept(fromPdf.out, prefix), ex.log \o pdf.log \o fromPdf.log, {}, FALSE)
            ELSE Done(Ret(<<>>), ex.log \o pdf.log, {}, FALSE)

extract_pdf_marks_missing(w) ==
    LET dl == download_file(w)
        fromPdf == extract_text_from_pdf_bytes(dl.content, w)
    IN IF Truthy(dl.content)
       THEN Done(TryExcept(fromPdf.out, "Error extracting PDF: "), dl.log \o fromPdf.log, {}, FALSE)
       ELSE Done(Ret(Marker("Error extracting PDF: ", <<"no content">>)), dl.log, {}, FALSE)
extract_pdf(w) ==
    LET dl == download_file(w)
        fromPdf == extract_text_from_pdf_bytes(dl.content, w)
    IN IF Truthy(dl.content)
       THEN Done(TryExcept(fromPdf.out, "Error extracting PDF: "), dl.log \o fromPdf.log, {}, FALSE)
       ELSE Done(Ret(<<>>), dl.log, {}, FALSE)

extract_text_file_strict(w) ==
    LET dl == download_file(w)
        dec == decode(dl.content.bytes, "strict")
    IN IF Truthy(dl.content)
       THEN Done(TryExcept(dec, "Error extracting text file: "),
                 dl.log \o << <<"decode", "strict">> >>, {}, FALSE)
       ELSE Done(Ret(<<>>), dl.log, {}, FALSE)
extract_text_file(w) ==
    LET dl == download_file(w)
        dec == decode(dl.content.bytes, "replace")
    IN IF Truthy(dl.content)
       THEN Done(TryExcept(dec, "Error extracting text file: "),
                 dl.log \o << <<"decode", "replace">> >>, {}, FALSE)
       ELSE Done(Ret(<<>>), dl.log, {}, FALSE)

\* the library opening the temporary file (docx.Document, pptx.Presentation):
\* an empty file is rejected, otherwise the library either raises or
\* delivers the parsed parts
OpenPackage(bytes, lib) ==
    IF bytes = <<>> THEN [kind |-> "raise", detail |-> "Package not found", parts |-> <<>>]
    ELSE lib

\* the part extract_docx and extract_pptx share: NamedTemporaryFile(delete=False),
\* write, parse the file with the library, os.unlink inside try/except: pass,
\* return the joined text; any exception before the return is turned into
\* the message by the function's except clause
ViaTempFile(w, dl, path, lib, libcall, text, prefix) ==
    LET package == OpenPackage(dl.content.bytes, lib)
        created == dl.log \o << <<"NamedTemporaryFile", path>> >>
        parsed == created \o << <<libcall, path>> >>
        unlinked == parsed \o << <<"unlink", path>> >>
    IN IF w.NamedTemporaryFile = "create_raises"
       THEN Done(TryExcept(Raise("No usable temporary directory"), prefix), created, {}, FALSE)
       ELSE IF w.NamedTemporaryFile = "write_raises"
       THEN Done(TryExcept(Raise("No space left on device"), prefix), created, {path}, FALSE)
       ELSE IF package.kind = "raise"
       THEN Done(TryExcept(Raise(package.detail), prefix), parsed, {path}, FALSE)
       ELSE IF w.unlink = "raises"
       THEN Done(TryExcept(Ret(text), prefix), unlinked, {path}, TRUE)
       ELSE Done(TryExcept(Ret(text), prefix), unlinked, {}, FALSE)

extract_docx(w) ==
    LET dl == download_file(w)
        doc == OpenPackage(dl.content.bytes, w.Document)
        full_text == doc.parts
    IN IF ~DOCX_AVAILABLE
       THEN Done(Ret(<<"[", "python-docx library not installed. Cannot extract DOCX content.", "]">>),
                 <<>>, {}, FALSE)
       ELSE IF ~Truthy(dl.content)
       THEN Done(Ret(<<>>), dl.log, {}, FALSE)
       ELSE ViaTempFile(w, dl, "tmp.docx", w.Document, "Document",
                        Join(full_text, <<"\n">>), "Error extracting DOCX: ")

\* the texts of the shapes of a slide that have a text attribute
ShapeTexts(slide) ==
    LET with_text == SelectSeq(slide, LAMBDA shape : shape.has_text)
    IN [i \in 1..Len(with_text) |-> with_text[i].text]

extract_pptx(w) ==
    LET dl == download_file(w)
        presentation == OpenPackage(dl.content.bytes, w.Presentation)
        slide_texts == [i \in 1..Len(presentation.parts) |-> ShapeTexts(presentation.parts[i])]
        contributing == SelectSeq(slide_texts, LAMBDA slide_text : slide_text # <<>>)
        full_text == [i \in 1..Len(contributing) |-> Join(contributing[i], <<"\n">>)]
    IN IF ~PPTX_AVAILABLE
       THEN Done(Ret(<<"[", "python-pptx library not installed. Cannot extract PPTX content.", "]">>),
                 <<>>, {}, FALSE)
       ELSE IF ~Truthy(dl.content)
       THEN Done(Ret(<<>>), dl.log, {}, FALSE)
       ELSE ViaTempFile(w, dl, "tmp.pptx", w.Presentation, "Presentation",
                        Join(full_text, <<"\n", "\n">>), "Error extracting PPTX: ")

\* BeautifulSoup(html_content, 'html.parser') as the sequence of text nodes
\* and script/style elements of the tree, in document order: the content of
\* a script or style element is raw text up to its own end tag (or to the
\* end of the document); a stray end tag is ignored and a <p> tag only
\* groups the nodes that follow it
RECURSIVE BeautifulSoup(_)
BeautifulSoup(html_content) ==
    IF html_content = <<>> THEN <<>>
    ELSE LET f == Head(html_content)
             rest == Tail(html_content)
             name == IF f = "<script>" THEN "script" ELSE "style"
             end_tag == IF f = "<script>" THEN "</script>" ELSE "</style>"
             ends == {i \in 1..Len(rest) : rest[i] = end_tag}
             close == IF ends = {} THEN Len(rest) + 1
                      ELSE CHOOSE i \in ends : \A j \in ends : i <= j
         IN IF f \in {"<script>", "<style>"}
            THEN <<[name |-> name, text |-> SubSeq(rest, 1, close - 1)]>>
                 \o BeautifulSoup(SubSeq(rest, close + 1, Len(rest)))
            ELSE IF f \in {"</script>", "</style>", "<p>"}
            THEN BeautifulSoup(rest)
            ELSE <<[name |-> "text", text |-> <<f>>]>> \o BeautifulSoup(rest)

\* the element names of soup(["script", "style"])
RemovedNames_script_only == {"script"}
RemovedNames == {"script", "style"}

\* for script in soup(["script", "style"]): script.extract()
extract_elements(soup, names) == SelectSeq(soup, LAMBDA node : node.name \notin names)

\* soup.get_text(): the text of the nodes left in the tree, concatenated
soup_get_text(soup) == Concat([i \in 1..Len(soup) |-> soup[i].text])

\* lines 271-275 of extract_html: strip every line, split it on double
\* spaces, strip the phrases, join the non-empty ones with newlines
html_chunks(text) ==
    LET raw == splitlines(text)
        lines == [i \in 1..Len(raw) |-> strip(raw[i])]
        phrases == Concat([i \in 1..Len(lines) |-> split_double_space(lines[i])])
        chunks == [i \in 1..Len(phrases) |-> strip(phrases[i])]
    IN Join(SelectSeq(chunks, LAMBDA chunk : chunk # <<>>), <<"\n">>)

extract_html(w) ==
    LET dl == download_file(w)
        html_content == decode(dl.content.bytes, "replace").value
        decoded == dl.log \o << <<"decode", "replace">> >>
        parsed == decoded \o << <<"BeautifulSoup", "">> >>
        prefix == "Error extracting HTML: "
    IN IF ~BS4_AVAILABLE
       THEN Done(Ret(<<"[", "BeautifulSoup4 library not installed. Cannot extract HTML content.", "]">>),
                 <<>>, {}, FALSE)
       ELSE IF ~Truthy(dl.content)
       THEN Done(Ret(<<>>), dl.log, {}, FALSE)
       ELSE IF w.BeautifulSoup = "raises"
       THEN Done(TryExcept(Raise("parser error"), prefix), parsed, {}, FALSE)
       ELSE Done(TryExcept(Ret(html_chunks(soup_get_text(
                     extract_elements(BeautifulSoup(html_content), RemovedNames)))), prefix),
                 parsed, {}, FALSE)

\* ---------------------------------------------------------------- dispatch
GOOGLE_DOC == "application/vnd.google-apps.document"
GOOGLE_SHEET == "application/vnd.google-apps.spreadsheet"
GOOGLE_SLIDES == "application/vnd.google-apps.presentation"
PDF == "application/pdf"
DOCX == "application/vnd.openxmlformats-officedocument.wordprocessingml.document"
PPTX == "application/vnd.openxmlformats-officedocument.presentationml.presentation"
TEXT_PLAIN == "text/plain"
TEXT_HTML == "text/html"
TEXT_MARKDOWN == "text/markdown"

DispatchTable ==
    {GOOGLE_DOC, GOOGLE_SHEET, GOOGLE_SLIDES, PDF, DOCX, PPTX, TEXT_PLAIN, TEXT_HTML, TEXT_MARKDOWN}

Unsupported_untagged(mime_type) ==
    Done(Ret(<<"[", "Content extraction not supported for file type: ", "unknown", "]">>),
         <<>>, {}, FALSE)
Unsupported(mime_type) ==
    Done(Ret(<<"[", "Content extraction not supported for file type: ", mime_type, "]">>),
         <<>>, {}, FALSE)

extract_file_content(info, w) ==
    LET mime_type == Get(info, "mimeType", "")
    IN CASE mime_type = GOOGLE_DOC -> extract_google_doc(w)
         [] mime_type = GOOGLE_SHEET -> extract_google_sheet(w)
         [] mime_type = GOOGLE_SLIDES -> extract_google_slides(w)
         [] mime_type = PDF -> extract_pdf(w)
         [] mime_type = DOCX -> extract_docx(w)
         [] mime_type = PPTX -> extract_pptx(w)
         [] mime_type = TEXT_PLAIN -> extract_text_file(w)
         [] mime_type = TEXT_HTML -> extract_html(w)
         [] mime_type = TEXT_MARKDOWN -> extract_text_file(w)
         [] OTHER -> Unsupported(mime_type)

\* ------------------------------------------------- inputs and environment
OtherTags == {"application/vnd.google-apps.folder", "image/png"}

\* the descriptors of a listing: Drive delivers id and name, and mimeType
\* unless the entry lacks it
FileInfoOf(id, tag) ==
    IF tag = "missing" THEN [id |-> id, name |-> id]
    ELSE [id |-> id, name |-> id, mimeType |-> tag]

Tags == DispatchTable \cup OtherTags \cup {"missing"}

\* what a media or export request does: deliver bytes or raise
FetchError == [kind |-> "error", bytes |-> <<>>]
FetchOutcomes(payloads) == {FetchError} \cup {[kind |-> "ok", bytes |-> b] : b \in payloads}

PartTexts == {<<>>, <<"h">>}
Shapes == {[has_text |-> FALSE, text |-> <<>>]} \cup {[has_text |-> TRUE, text |-> t] : t \in PartTexts}

\* what a library does with a non-empty file: raise or deliver the parts
LibRaise(detail) == [kind |-> "raise", detail |-> detail, parts |-> <<>>]
PdfRaise == [kind |-> "raise", detail |-> "EOF marker not found", pages |-> <<>>]
PdfOutcomes(n) ==
    {PdfRaise} \cup {[kind |-> "ok", detail |-> "", pages |-> p] : p \in SeqsUpTo(PartTexts, n)}
DocumentOutcomes(n) ==
    {LibRaise("File is not a zip file")}
    \cup {[kind |-> "ok", detail |-> "", parts |-> p] : p \in SeqsUpTo(PartTexts, n)}
PresentationOutcomes(n, k) ==
    {LibRaise("File is not a zip file")}
    \cup {[kind |-> "ok", detail |-> "", parts |-> p] : p \in SeqsUpTo(SeqsUpTo(Shapes, k), n)}

DefaultWorld ==
    [get_media |-> FetchError,
     export_media |-> [m \in ExportMimes |-> FetchError],
     PdfReader |-> PdfRaise,
     Document |-> LibRaise("File is not a zip file"),
     Presentation |-> LibRaise("File is not a zip file"),
     BeautifulSoup |-> "ok",
     NamedTemporaryFile |-> "ok",
     unlink |-> "ok"]

TempFileOutcomes == {"ok", "create_raises", "write_raises"}
UnlinkOutcomes == {"ok", "raises"}

\* the environments that differ in what the extractor of a tag can observe:
\* payloads drawn from the given set, at most n parts (pages, paragraphs,
\* slides) and k shapes on a slide
WorldsOver(tag, payloads, n, k) ==
    CASE tag = GOOGLE_DOC ->
           {[DefaultWorld EXCEPT !.export_media["text/plain"] = f] : f \in FetchOutcomes(payloads)}
      [] tag = GOOGLE_SHEET ->
           {[DefaultWorld EXCEPT !.export_media["text/csv"] = f] : f \in FetchOutcomes(payloads)}
      [] tag = GOOGLE_SLIDES ->
           {[DefaultWorld EXCEPT !.export_media["text/plain"] = f] :
               f \in FetchOutcomes(payloads) \ {FetchError}}
           \cup {[DefaultWorld EXCEPT !.export_media["application/pdf"] = g, !.PdfReader = r] :
                    g \in FetchOutcomes(payloads), r \in PdfOutcomes(n)}
      [] tag = PDF ->
           {[DefaultWorld EXCEPT !.get_media = f, !.PdfReader = r] :
               f \in FetchOutcomes(payloads), r \in PdfOutcomes(n)}
      [] tag = DOCX ->
           {[DefaultWorld EXCEPT !.get_media = f, !.Document = d,
                                 !.NamedTemporaryFile = t, !.unlink = u] :
               f \in FetchOutcomes(payloads), d \in DocumentOutcomes(n),
               t \in TempFileOutcomes, u \in UnlinkOutcomes}
      [] tag = PPTX ->
           {[DefaultWorld EXCEPT !.get_media = f, !.Presentation = d,
                                 !.NamedTemporaryFile = t, !.unlink = u] :
               f \in FetchOutcomes(payloads), d \in PresentationOutcomes(n, k),
               t \in TempFileOutcomes, u \in UnlinkOutcomes}
      [] tag = TEXT_HTML ->
           {[DefaultWorld EXCEPT !.get_media = f, !.BeautifulSoup = b] :
               f \in FetchOutcomes(payloads \cup HtmlPayloads), b \in {"ok", "raises"}}
      [] OTHER ->
           {[DefaultWorld EXCEPT !.get_media = f] : f \in FetchOutcomes(payloads)}

Worlds(tag) == WorldsOver(tag, Payloads, MaxParts, MaxShapes)

\* the import flags an extractor of the tag reads (the others stay TRUE)
LibFlags(tag) ==
    {<<d, p, b>> : d \in (IF tag = DOCX THEN BOOLEAN ELSE {TRUE}),
                   p \in (IF tag = PPTX THEN BOOLEAN ELSE {TRUE}),
                   b \in (IF tag = TEXT_HTML THEN BOOLEAN ELSE {TRUE})}

NoExt == Done(Ret(<<>>), <<>>, {}, FALSE)

\* ------------------------------------------------ one call of the dispatcher
\* no summarizer, retry or path run is under way
SummaryOff ==
    /\ summary_content = <<>> /\ summary_client = <<>>
    /\ summary_out = <<>> /\ summary_pc = "off"
RetryOff ==
    /\ max_retries = 0 /\ initial_delay = 0 /\ retries = 0
    /\ calls = <<>> /\ sleeps = <<>> /\ retry_out = <<>> /\ retry_pc = "off"
PathOff ==
    /\ drive = <<>> /\ path_file_info = <<>> /\ path_parts = <<>>
    /\ current_parent = "None" /\ lookups = <<>> /\ path_out = <<>> /\ path_pc = "off"

MainOff ==
    /\ files = <<>> /\ idx = 1 /\ results = <<>> /\ pc = "off"
    /\ history = <<>>
    /\ toc = <<>> /\ sections = <<>>

InitDispatch ==
    /\ \E tag \in Tags :
         /\ file_info = FileInfoOf("f1", tag)
         /\ \E flags \in LibFlags(tag) :
              /\ DOCX_AVAILABLE = flags[1]
              /\ PPTX_AVAILABLE = flags[2]
              /\ BS4_AVAILABLE = flags[3]
    /\ world = DefaultWorld
    /\ ext = NoExt
    /\ phase = "start"
    /\ MainOff /\ SummaryOff /\ RetryOff /\ PathOff

\* extract_file_content(drive_client, file_info) in an environment w
Dispatch ==
    /\ phase = "start"
    /\ \E w \in Worlds(Get(file_info, "mimeType", "")) :
         /\ world' = w
         /\ ext' = extract_file_content(file_info, w)
    /\ phase' = "returned"
    /\ UNCHANGED <<file_info, libVars, mainVars, summaryVars, retryVars, pathVars>>

NextDispatch == Dispatch

SpecDispatch == InitDispatch /\ [][NextDispatch]_vars

\* --------------------------------------------- properties of the dispatcher
mime == Get(file_info, "mimeType", "")
returned == phase = "returned"

IsText(t) == DOMAIN t = 1..Len(t) /\ \A i \in 1..Len(t) : t[i] \in STRING
Bracketed(t) == t # <<>> /\ Head(t) = "[" /\ t[Len(t)] = "]"

FetchEvents == SelectSeq(ext.log, LAMBDA e : e[1] \in {"get_media", "export_media"})
StepEvents == SelectSeq(ext.log, LAMBDA e : e[1] \notin {"get_media", "export_media"})
Called(name) == \E i \in 1..Len(ext.log) : ext.log[i][1] = name
Exported(mime_type) == \E i \in 1..Len(ext.log) : ext.log[i] = <<"export_media", mime_type>>
\* what the request behind a fetch event did
FetchResult(e) == IF e[1] = "get_media" THEN world.get_media ELSE world.export_media[e[2]]
FetchFailed(e) == FetchResult(e).kind = "error"
LibraryMissing ==
    \/ mime = DOCX /\ ~DOCX_AVAILABLE
    \/ mime = PPTX /\ ~PPTX_AVAILABLE
    \/ mime = TEXT_HTML /\ ~BS4_AVAILABLE

\* C1: extract_file_content always returns a string and never raises, for
\* every tag of the dispatch table and every outcome of the fetch, export,
\* decode and parse steps.
C1_DispatchReturnsString ==
    returned /\ mime \in DispatchTable =>
        ext.out.kind = "return" /\ IsText(ext.out.value)

\* a Google document whose export is not valid UTF-8: the decoder raised
\* and the dispatcher still returned a string
C1_Witness ==
    /\ returned /\ mime = GOOGLE_DOC
    /\ world.export_media["text/plain"].kind = "ok"
    /\ decode(world.export_media["text/plain"].bytes, "strict").kind = "raise"
    /\ ext.out.kind = "return"

\* C2: a file whose tag is not in the dispatch table (a missing tag is the
\* empty tag) gets exactly "[Content extraction not supported for file
\* type: <tag>]" and neither a download nor an export is requested.
C2_UnsupportedExactNoFetch ==
    returned /\ mime \notin DispatchTable =>
        /\ ext.out = Ret(<<"[", "Content extraction not supported for file type: ", mime, "]">>)
        /\ FetchEvents = <<>>

\* an unsupported tag was dispatched while its download would have succeeded
C2_Witness ==
    /\ returned /\ mime = "image/png"
    /\ world.get_media.kind = "ok"
    /\ ext.log = <<>>
    /\ ext.out.value[3] = "image/png"

\* the four kinds of failure of one dispatcher call
UnsupportedTag == mime \notin DispatchTable
FetchFailure == \E i \in 1..Len(FetchEvents) : FetchFailed(FetchEvents[i])
ParseFailure ==
    \/ Called("PdfReader") /\ PdfReader(BytesIO(FetchResult(FetchEvents[Len(FetchEvents)]).bytes), world).kind = "raise"
    \/ Called("Document") /\ OpenPackage(world.get_media.bytes, world.Document).kind = "raise"
    \/ Called("Presentation") /\ OpenPackage(world.get_media.bytes, world.Presentation).kind = "raise"
    \/ Called("BeautifulSoup") /\ world.BeautifulSoup = "raises"
    \/ /\ ext.log # <<>> /\ ext.log[Len(ext.log)] = <<"decode", "strict">>
       /\ decode(FetchResult(FetchEvents[Len(FetchEvents)]).bytes, "strict").kind = "raise"

\* C3 (as claimed): every failure of the four kinds (unsupported tag, fetch
\* failure, parse failure, missing optional library) makes the dispatcher
\* return a non-empty string that begins with "[" and ends with "]".
C3_EveryFailureBracketed ==
    returned /\ (UnsupportedTag \/ FetchFailure \/ ParseFailure \/ LibraryMissing) =>
        ext.out.kind = "return" /\ Bracketed(ext.out.value)

\* C4: when every fetch an extractor attempted returned None, the extractor
\* returns the empty string and not a failure marker.
C4_NoneGivesEmptyString ==
    returned /\ FetchEvents # <<>> /\ (\A i \in 1..Len(FetchEvents) : FetchFailed(FetchEvents[i])) =>
        ext.out = Ret(<<>>)

\* a presentation whose plain-text export and PDF export both returned None
C4_Witness ==
    /\ returned /\ mime = GOOGLE_SLIDES
    /\ Len(FetchEvents) = 2
    /\ \A i \in 1..2 : FetchFailed(FetchEvents[i])
    /\ ext.out = Ret(<<>>)

\* C5 (as claimed): when extract_docx or extract_pptx returns, the temporary
\* file it created no longer exists, unless the removal call itself failed.
C5_TempFileRemoved ==
    returned /\ (Called("Document") \/ Called("Presentation")) =>
        (ext.tmp = {} \/ ext.unlink_failed)

\* C9 (as claimed): extract_google_slides exports plain text first; when that
\* export is None or zero bytes it requests the PDF export and runs the PDF
\* extractor on it; a non-empty text export requests no PDF export, and a
\* decode failure of the first export does not trigger the fallback.
C9_SlidesFallbackOnEmpty ==
    returned /\ mime = GOOGLE_SLIDES =>
        LET first == world.export_media["text/plain"]
            second == world.export_media["application/pdf"]
        IN /\ ext.log[1] = <<"export_media", "text/plain">>
           /\ (first.kind = "error" \/ first.bytes = <<>>) =>
                 /\ Exported("application/pdf")
                 /\ second.kind = "ok" => Called("PdfReader")
           /\ (first.kind = "ok" /\ first.bytes # <<>>) => ~Exported("application/pdf")

\* C10: a fetch result of None is a missing payload (empty string, no decode
\* or parse step runs); a present payload of zero bytes is handed to the
\* decode or parse step of the format and the extractor returns the outcome
\* of that step.
C10_NoneVersusEmptyBytes ==
    returned /\ FetchEvents # <<>> =>
        LET last == FetchResult(FetchEvents[Len(FetchEvents)])
        IN /\ last.kind = "error" => ext.out = Ret(<<>>) /\ StepEvents = <<>>
           /\ (last.kind = "ok" /\ last.bytes = <<>>) =>
                 /\ StepEvents # <<>>
                 /\ StepEvents[1][1] \in {"decode", "PdfReader", "NamedTemporaryFile"}
                 /\ StepEvents[1][1] = "decode" /\ ~Called("BeautifulSoup") => ext.out = Ret(<<>>)
                 /\ StepEvents[1][1] = "PdfReader" =>
                        /\ Bracketed(ext.out.value)
                        /\ ext.out.value[3] = "Cannot read an empty file"
                 /\ StepEvents[1][1] = "NamedTemporaryFile" => Bracketed(ext.out.value)

\* a PDF whose download delivered zero bytes: the parser ran and its
\* failure is the result
C10_Witness ==
    /\ returned /\ mime = PDF
    /\ world.get_media = [kind |-> "ok", bytes |-> <<>>]
    /\ Called("PdfReader")
    /\ Bracketed(ext.out.value)

\* -------------------------------------------------------------- summarizer
\* json.loads of the reply: a dict is a function from its keys
FullReply == [summary |-> <<"s">>, key_concepts |-> << <<"k">> >>]
Replies == {FullReply, [summary |-> <<"s">>], [key_concepts |-> << <<"k">> >>], <<>>}

\* what the OpenAI client does: the constructor raises or not; the remote
\* call raises, or replies with text that is not JSON, or with a JSON object
SummarizerWorlds ==
    {[OpenAI |-> "raises", create |-> "error", reply |-> <<>>]}
    \cup {[OpenAI |-> "ok", create |-> c, reply |-> <<>>] : c \in {"error", "invalid_json"}}
    \cup {[OpenAI |-> "ok", create |-> "json", reply |-> r] : r \in Replies}

\* generate_content_summary(content, api_key); the contents drawn here are
\* far below char_limit, so nothing is truncated
generate_content_summary(content, s) ==
    LET result == s.reply
        normalised ==
            IF "summary" \notin DOMAIN result \/ "key_concepts" \notin DOMAIN result
            THEN [summary |-> Get(result, "summary", <<"Summary generation failed.">>),
                  key_concepts |-> Get(result, "key_concepts", <<>>)]
            ELSE result
        placeholder(detail) ==
            [summary |-> <<"Error generating summary: ", detail>>,
             key_concepts |-> << <<"Summary generation failed">> >>]
    IN IF ~StrTruthy(content) \/ ~StrTruthy(strip(content))
       THEN [out |-> Ret([summary |-> <<"No content available to summarize.">>,
                          key_concepts |-> <<>>]),
             remote_calls |-> 0]
       ELSE IF s.OpenAI = "raises"
       THEN [out |-> Raise("client could not be constructed"), remote_calls |-> 0]
       ELSE IF s.create = "error"
       THEN [out |-> Ret(placeholder("Connection error.")), remote_calls |-> 1]
       ELSE IF s.create = "invalid_json"
       THEN [out |-> Ret(placeholder("Expecting value")), remote_calls |-> 1]
       ELSE [out |-> Ret(normalised), remote_calls |-> 1]

\* --------------------------------------------------------------- assembler
\* create_knowledge_base(document_results, output_path): the table of
\* contents, then the sections; an I/O error is logged and re-raised, and
\* what was written before it stays written.  fail_at = 0: no error;
\* otherwise the fail_at-th write of an entry raises
create_knowledge_base(document_results, fail_at) ==
    LET n == Len(document_results)
        names == [i \in 1..n |-> Get(document_results[i].metadata, "name", "Unnamed Document")]
        written == IF fail_at = 0 THEN 2 * n ELSE fail_at - 1
        toc_written == IF written < n THEN written ELSE n
        sections_written == IF written < n THEN 0 ELSE written - n
    IN [raised |-> fail_at # 0,
        toc |-> SubSeq(names, 1, toc_written),
        sections |-> SubSeq(document_results, 1, sections_written)]

\* -------------------------------------------------------------------- main
\* the listings and environments the loop is run on
MainTags == {TEXT_PLAIN, PDF, DOCX, "image/png"}
MainPayloads == {<<>>, <<32>>, <<104>>}
MainWorlds(tag) == WorldsOver(tag, MainPayloads, 1, 1)
MainSummarizerWorlds ==
    {s \in SummarizerWorlds : s.create # "json" \/ s.reply \in {FullReply, <<>>}}

FileIds == <<"f1", "f2", "f3", "f4">>
Listings ==
    {[i \in 1..Len(tags) |-> FileInfoOf(FileIds[i], tags[i])] : tags \in SeqsUpTo(MainTags, MaxFiles)}

DispatchOff ==
    /\ file_info = FileInfoOf("f1", "missing") /\ world = DefaultWorld
    /\ ext = NoExt /\ phase = "idle"

Init ==
    /\ files \in Listings
    /\ DOCX_AVAILABLE \in BOOLEAN /\ PPTX_AVAILABLE = TRUE /\ BS4_AVAILABLE = TRUE
    /\ idx = 1 /\ results = <<>> /\ pc = "loop" /\ history = <<>>
    /\ toc = <<>> /\ sections = <<>>
    /\ DispatchOff /\ SummaryOff /\ RetryOff /\ PathOff

\* results.append(doc_entry)
results_prepend(rs, doc_entry) == <<doc_entry>> \o rs
results_append(rs, doc_entry) == Append(rs, doc_entry)

\* except Exception as e: logger.error(...) -- the loop goes on
main_except_reraise(e) == "aborted"
main_except(e) == "loop"

\* one iteration of the loop of main: the whole try statement for files[idx]
ProcessFile ==
    /\ pc = "loop" /\ idx <= Len(files)
    /\ \E w \in MainWorlds(Get(files[idx], "mimeType", "")), s \in MainSummarizerWorlds :
         LET extraction == extract_file_content(files[idx], w).out
             content == extraction.value
             has_content == StrTruthy(content) /\ StrTruthy(strip(content))
             summary == generate_content_summary(content, s).out
             doc_entry == [metadata |-> files[idx], summary |-> summary.value, content |-> content]
         IN IF extraction.kind = "raise"
            THEN /\ pc' = main_except(extraction.value)
                 /\ results' = results
                 /\ history' = Append(history, [content |-> <<>>, extracted |-> FALSE,
                                                branch |-> "except", summarizer_called |-> FALSE])
            ELSE IF ~has_content
            THEN /\ pc' = "loop"
                 /\ results' = results
                 /\ history' = Append(history, [content |-> content, extracted |-> TRUE,
                                                branch |-> "no_content", summarizer_called |-> FALSE])
            ELSE IF summary.kind = "raise"
            THEN /\ pc' = main_except(summary.value)
                 /\ results' = results
                 /\ history' = Append(history, [content |-> content, extracted |-> TRUE,
                                                branch |-> "except", summarizer_called |-> TRUE])
            ELSE /\ pc' = "loop"
                 /\ results' = results_append(results, doc_entry)
                 /\ history' = Append(history, [content |-> content, extracted |-> TRUE,
                                                branch |-> "appended", summarizer_called |-> TRUE])
    /\ idx' = idx + 1
    /\ UNCHANGED <<files, toc, sections, libVars, extractVars, summaryVars, retryVars, pathVars>>

\* generate_markdown(results, args.output) after the loop
GenerateMarkdown ==
    /\ pc = "loop" /\ idx > Len(files)
    /\ \E fail_at \in 0..(2 * Len(results)) :
         LET written == create_knowledge_base(results, fail_at)
         IN /\ toc' = written.toc
            /\ sections' = written.sections
            /\ pc' = IF written.raised THEN "failed" ELSE "done"
    /\ UNCHANGED <<files, idx, results, history, libVars, extractVars, summaryVars, retryVars, pathVars>>

Next == ProcessFile \/ GenerateMarkdown

Spec == Init /\ [][Next]_vars

\* ------------------------------------------------- properties of the loop
loop_ended == pc \in {"loop", "done", "failed"} /\ idx > Len(files)
RecordsOf(info) == {j \in 1..Len(results) : results[j].metadata = info}
\* position in the listing of the file a record was made from
Pos(doc_entry) == CHOOSE i \in 1..Len(files) : files[i] = doc_entry.metadata

\* C6 (as claimed): after the loop every listed file has exactly one record,
\* holding the extracted text (a failure marker included), except the files
\* whose extracted text is empty after stripping: those have no record and
\* the summarizer was not called for them.
C6_OneRecordPerFile ==
    loop_ended =>
        \A i \in 1..Len(files) :
            IF strip(history[i].content) = <<>>
            THEN RecordsOf(files[i]) = {} /\ ~history[i].summarizer_called
            ELSE /\ Cardinality(RecordsOf(files[i])) = 1
                 /\ \A j \in RecordsOf(files[i]) : results[j].content = history[i].content

\* C7: an exception while one file is processed is caught and only that
\* file is skipped: the loop never aborts, every position before the loop
\* index has been processed, the failed file has no record, and the
\* assembler runs only after the whole listing has been gone through.
C7_ExceptionSkipsOnlyThatFile ==
    /\ pc \in {"loop", "done", "failed"}
    /\ Len(history) = idx - 1
    /\ pc \in {"done", "failed"} => idx = Len(files) + 1
    /\ \A i \in 1..Len(history) :
          history[i].branch = "except" => RecordsOf(files[i]) = {}

\* the run ended with the report written, after an exception at one file
\* and a record made for a later one
C7_Witness ==
    /\ pc = "done"
    /\ \E i, j \in 1..Len(history) :
          /\ i < j
          /\ history[i].branch = "except"
          /\ history[j].branch = "appended"
          /\ RecordsOf(files[j]) # {}
          /\ \E k \in 1..Len(sections) : sections[k].metadata = files[j]

IsPrefix(a, b) == Len(a) <= Len(b) /\ SubSeq(b, 1, Len(a)) = a
NamesOf(rs) == [i \in 1..Len(rs) |-> rs[i].metadata.name]
C8_Order ==
    /\ \A j \in 1..Len(results) : \E i \in 1..Len(files) : files[i] = results[j].metadata
    /\ \A j, k \in 1..Len(results) : j < k => Pos(results[j]) < Pos(results[k])
    /\ IsPrefix(toc, NamesOf(results))
    /\ IsPrefix(sections, results)
    /\ pc = "done" => toc = NamesOf(results) /\ sections = results

\* C8: the records are append-only and in listing order: at every point
\* they are made from files of the listing in increasing position, a step
\* either leaves them unchanged or appends one record, and the assembler
\* writes the table of contents and the sections in that same order.
C8_AppendOnlyListingOrder ==
    /\ []C8_Order
    /\ [][\/ results' = results
          \/ /\ Len(results') = Len(results) + 1
             /\ SubSeq(results', 1, Len(results)) = results]_vars

\* two records were made and the report lists both, in listing order
C8_Witness ==
    /\ pc = "done"
    /\ Len(results) = 2
    /\ toc = <<"f1", "f2">>
    /\ sections = results

\* ------------------------------------------ properties of the extractors
\* the presentation extractor ran to its return statement
pptx_extracted ==
    /\ returned /\ mime = PPTX /\ Called("unlink")
\* the slides the library delivered
slides == world.Presentation.parts
\* a slide has text when one of its shapes exposes a non-empty text
HasText(slide) == \E i \in 1..Len(slide) : slide[i].has_text /\ slide[i].text # <<>>
SlidesWithText == SelectSeq(slides, HasText)

\* C11 (as claimed): the output of extract_pptx is one segment per slide that
\* has text (its shape texts joined by newlines), the segments joined by a
\* blank line in slide order; a slide without text is omitted and leaves no
\* empty segment.
C11_PptxSegmentsOnlyForSlidesWithText ==
    pptx_extracted =>
        ext.out = Ret(Join([i \in 1..Len(SlidesWithText) |->
                               Join(ShapeTexts(SlidesWithText[i]), <<"\n">>)],
                           <<"\n", "\n">>))

\* the PDF extractor got the pages from the library
pdf_extracted ==
    /\ returned /\ mime = PDF /\ Called("PdfReader")
    /\ PdfReader(BytesIO(world.get_media.bytes), world).kind = "ok"
pages == world.PdfReader.pages
blank_line == <<"\n", "\n">>

\* C12 (as claimed): for parsable PDF bytes the result is the texts of the
\* pages in page order, separated by a blank line.
C12_PagesSeparatedByBlankLine ==
    pdf_extracted => ext.out = Ret(Join(pages, blank_line))

\* C12 (amended): the result is the texts of the pages in page order, each
\* followed by a blank line, the last one included; a page without text
\* contributes only its blank line and is not an error.
C12_PagesEachFollowedByBlankLine ==
    pdf_extracted =>
        /\ ext.out.kind = "return"
        /\ ext.out.value = IF pages = <<>> THEN <<>> ELSE Join(pages, blank_line) \o blank_line
        /\ Len(ext.out.value) = 2 * Len(pages) + Len(Concat(pages))
        /\ ~Bracketed(ext.out.value)

\* a PDF of two pages, the first without text
C12_Witness ==
    /\ pdf_extracted
    /\ Len(pages) = 2 /\ pages[1] = <<>> /\ pages[2] = <<"h">>
    /\ ext.out.value = <<"\n", "\n", "h", "\n", "\n">>

\* the UTF-8 encoding of a text over the characters drawn here
EncodeChar(c) ==
    CASE c = "\n" -> <<10>>
      [] c = " " -> <<32>>
      [] c = "h" -> <<104>>
      [] c = "U+00E9" -> <<195, 169>>
utf8_encode(t) == Concat([i \in 1..Len(t) |-> EncodeChar(t[i])])
Strings == SeqsUpTo({" ", "h", "U+00E9"}, MaxLen)

\* C13: for text/plain and text/markdown, downloaded bytes that are the
\* UTF-8 encoding of a string (the empty one included) give exactly that
\* string; bytes that are not valid UTF-8 are decoded with replacement
\* characters and give neither an exception nor a failure marker.
C13_PlainTextRoundTrip ==
    returned /\ mime \in {TEXT_PLAIN, TEXT_MARKDOWN} /\ world.get_media.kind = "ok" =>
        LET b == world.get_media.bytes
            encoded == {t \in Strings : utf8_encode(t) = b}
        IN /\ ext.out.kind = "return"
           /\ \A t \in encoded : ext.out.value = t
           /\ encoded = {} =>
                 /\ ~Bracketed(ext.out.value)
                 /\ \E i \in 1..Len(ext.out.value) : ext.out.value[i] = "U+FFFD"
                 /\ \A i \in 1..Len(ext.out.value) :
                        ext.out.value[i] \in {" ", "h", "U+00E9", "U+FFFD"}

\* a markdown file whose two bytes encode one two-byte character
C13_Witness ==
    /\ returned /\ mime = TEXT_MARKDOWN
    /\ world.get_media = [kind |-> "ok", bytes |-> <<195, 169>>]
    /\ ext.out = Ret(<<"U+00E9">>)

\* the HTML extractor parsed the document
html_extracted ==
    /\ returned /\ mime = TEXT_HTML /\ Called("BeautifulSoup") /\ world.BeautifulSoup = "ok"
document == world.get_media.bytes
\* position i lies inside a script or style element whose content is plain
\* text: between a start tag and its end tag with no tag in between
InScriptOrStyle(i) ==
    \E j \in 1..(i - 1), k \in (i + 1)..Len(document) :
        /\ \/ document[j] = 1001 /\ document[k] = 1002
           \/ document[j] = 1003 /\ document[k] = 1004
        /\ \A m \in (j + 1)..(k - 1) : document[m] \notin TagUnits
NonBlank(t) == SelectSeq(t, LAMBDA c : c \notin Whitespace)

\* C14: text that occurs only inside script or style elements never appears
\* in the output of extract_html; the output is the remaining non-blank
\* fragments, stripped, lines split on double spaces, joined by single
\* newlines: it has no empty line, no line starts or ends with whitespace
\* or contains a double space, and a document without tags keeps all its
\* non-blank characters in order.
C14_HtmlScriptStyleNeverLeak ==
    html_extracted =>
        LET out == ext.out.value
        IN /\ ext.out.kind = "return"
           /\ (\A i \in 1..Len(document) : document[i] = 97 => InScriptOrStyle(i)) =>
                 \A i \in 1..Len(out) : out[i] # "a"
           /\ out # <<>> => out[1] \notin Whitespace /\ out[Len(out)] \notin Whitespace
           /\ \A i \in 1..(Len(out) - 1) :
                 /\ out[i] = "\n" => out[i + 1] \notin Whitespace
                 /\ out[i + 1] = "\n" => out[i] \notin Whitespace
                 /\ ~(out[i] = " " /\ out[i + 1] = " ")
           /\ (\A i \in 1..Len(document) : document[i] \notin TagUnits) =>
                 NonBlank(out) = NonBlank(utf8_replace(document))

\* "<script>a</script>h": the script text is gone and the visible text stays
C14_Witness ==
    /\ html_extracted
    /\ document = <<1001, 97, 1002, 104>>
    /\ ext.out = Ret(<<"h">>)

\* ------------------------------------------------- the summarizer alone
SummaryChars == {" ", "\n", "h", "U+00E9"}
SummaryTexts == SeqsUpTo(SummaryChars, MaxLen)
LibsOn == DOCX_AVAILABLE = TRUE /\ PPTX_AVAILABLE = TRUE /\ BS4_AVAILABLE = TRUE

InitSummary ==
    /\ summary_content \in SummaryTexts
    /\ summary_client = <<>> /\ summary_out = <<>> /\ summary_pc = "start"
    /\ LibsOn /\ DispatchOff /\ MainOff /\ RetryOff /\ PathOff

\* generate_content_summary(content, api_key) with a client that behaves as s
Summarize ==
    /\ summary_pc = "start"
    /\ \E s \in SummarizerWorlds :
         /\ summary_client' = s
         /\ summary_out' = generate_content_summary(summary_content, s)
    /\ summary_pc' = "returned"
    /\ UNCHANGED <<summary_content, libVars, extractVars, mainVars, retryVars, pathVars>>

NextSummary == Summarize

SpecSummary == InitSummary /\ [][NextSummary]_vars

blank_content == \A i \in 1..Len(summary_content) : summary_content[i] \in Whitespace

\* C15: generate_content_summary never raises; whatever the client does it
\* returns a result with a 'summary' field and a 'key_concepts' list, and for
\* blank text it returns the placeholder without a remote call.
C15_SummaryNeverRaises ==
    summary_pc = "returned" =>
        /\ summary_out.out.kind = "return"
        /\ {"summary", "key_concepts"} \subseteq DOMAIN summary_out.out.value
        /\ blank_content =>
              /\ summary_out.remote_calls = 0
              /\ summary_out.out.value = [summary |-> <<"No content available to summarize.">>,
                                          key_concepts |-> <<>>]

\* ------------------------------------------- retry_with_exponential_backoff
\* what one call of func does: it returns a value, raises
\* openai.RateLimitError, or raises another exception
FuncOutcomes ==
    {[kind |-> "ok", value |-> v] : v \in {"v1", "v2"}}
    \cup {[kind |-> "RateLimitError", value |-> ""], [kind |-> "Exception", value |-> ""]}

\* random.uniform(0, 1), in tenths of a second
Jitter == {0, 5}

\* delay * (2 ** retries) + random.uniform(0, 1), in tenths of a second
sleep_time(delay, n, jitter) == 10 * delay * (2 ^ n) + jitter

\* if retries >= max_retries: raise
GiveUp_late(n, limit) == n > limit
GiveUp(n, limit) == n >= limit

InitRetry ==
    /\ max_retries \in 0..MaxRetries
    /\ initial_delay \in {1, 2}
    /\ retries = 0 /\ calls = <<>> /\ sleeps = <<>>
    /\ retry_out = <<>> /\ retry_pc = "loop"
    /\ LibsOn /\ DispatchOff /\ MainOff /\ SummaryOff /\ PathOff

\* one iteration of the while loop: call func; return its value, or count
\* the rate-limit error and give up or sleep, or let another exception out
CallFunc ==
    /\ retry_pc = "loop" /\ retries < max_retries
    /\ \E o \in FuncOutcomes, jitter \in Jitter :
         /\ calls' = Append(calls, o)
         /\ IF o.kind = "ok"
            THEN /\ retry_out' = [kind |-> "return", value |-> o.value]
                 /\ retry_pc' = "returned"
                 /\ UNCHANGED <<retries, sleeps>>
            ELSE IF o.kind = "RateLimitError"
            THEN /\ retries' = retries + 1
                 /\ IF GiveUp(retries + 1, max_retries)
                    THEN /\ retry_out' = [kind |-> "raise", value |-> "RateLimitError"]
                         /\ retry_pc' = "raised"
                         /\ UNCHANGED sleeps
                    ELSE /\ sleeps' = Append(sleeps, sleep_time(initial_delay, retries + 1, jitter))
                         /\ UNCHANGED <<retry_out, retry_pc>>
            ELSE /\ retry_out' = [kind |-> "raise", value |-> "Exception"]
                 /\ retry_pc' = "raised"
                 /\ UNCHANGED <<retries, sleeps>>
    /\ UNCHANGED <<max_retries, initial_delay, libVars, extractVars, mainVars, summaryVars, pathVars>>

\* the loop condition is false: the function ends without a return statement
LoopEnd ==
    /\ retry_pc = "loop" /\ ~(retries < max_retries)
    /\ retry_out' = [kind |-> "return", value |-> "None"]
    /\ retry_pc' = "returned"
    /\ UNCHANGED <<max_retries, initial_delay, retries, calls, sleeps,
                   libVars, extractVars, mainVars, summaryVars, pathVars>>

NextRetry == CallFunc \/ LoopEnd

SpecRetry == InitRetry /\ [][NextRetry]_vars

last_call == calls[Len(calls)]

\* C16: with max_retries >= 1, retry_with_exponential_backoff returns the
\* value of the first call of func that succeeds; every call but the last
\* ended in a rate-limit error; func is called at most max_retries times;
\* when the max_retries-th call is rate limited the rate-limit error is
\* raised; any other exception is raised at once, with no further call.
C16_RetryOnlyOnRateLimit ==
    (retry_pc # "off" /\ max_retries >= 1) =>
        /\ Len(calls) <= max_retries
        /\ \A i \in 1..(Len(calls) - 1) : calls[i].kind = "RateLimitError"
        /\ retry_pc = "loop" =>
              /\ \A i \in 1..Len(calls) : calls[i].kind = "RateLimitError"
              /\ Len(calls) < max_retries
              /\ Len(sleeps) = Len(calls)
        /\ retry_pc = "returned" =>
              /\ calls # <<>> /\ last_call.kind = "ok"
              /\ retry_out = [kind |-> "return", value |-> last_call.value]
        /\ retry_pc = "raised" =>
              /\ calls # <<>>
              /\ last_call.kind \in {"RateLimitError", "Exception"}
              /\ retry_out = [kind |-> "raise", value |-> last_call.kind]
              /\ last_call.kind = "RateLimitError" => Len(calls) = max_retries

\* two rate-limit errors, then the third call returns "v2"
C16_Witness ==
    /\ retry_pc = "returned" /\ max_retries = 3
    /\ Len(calls) = 3
    /\ calls[1].kind = "RateLimitError" /\ calls[2].kind = "RateLimitError"
    /\ retry_out = [kind |-> "return", value |-> "v2"]

\* the third of three calls is rate limited as well: the error is raised
C16_WitnessGiveUp ==
    /\ retry_pc = "raised" /\ max_retries = 3 /\ Len(calls) = 3
    /\ retry_out = [kind |-> "raise", value |-> "RateLimitError"]

\* ------------------------------------------------------------ get_file_path
\* if len(path_parts) > 100
PathLimit == 100

FolderIds == {<<"A", "B", "C">>[i] : i \in 1..MaxFolders}

\* None, as the value of current_parent
NoParent == "None"

\* 'parents' of a descriptor: the key is absent, or the list is empty, or it
\* names one folder
WithParents(info) ==
    {info, [name |-> info.name, parents |-> <<>>]}
    \cup {[name |-> info.name, parents |-> <<p>>] : p \in FolderIds}

\* files().get(fileId=..., fields='name,parents').execute() for one folder:
\* it raises, or answers with the folder's name and parents
Answers(id) ==
    {[kind |-> "error", info |-> <<>>]}
    \cup {[kind |-> "ok", info |-> i] : i \in WithParents([name |-> id])}

Drives == {d \in [FolderIds -> UNION {Answers(id) : id \in FolderIds}] :
              \A id \in FolderIds : d[id] \in Answers(id)}

\* "/".join(path_parts) after the leading "/"
PathString(parts) ==
    IF parts = <<>> THEN <<"/">>
    ELSE [i \in 1..(2 * Len(parts)) |-> IF i % 2 = 1 THEN "/" ELSE parts[i \div 2]]

PastLimit_late(parts) == Len(parts) > PathLimit + 1
PastLimit(parts) == Len(parts) > PathLimit

InitPath ==
    /\ drive \in Drives
    /\ path_file_info \in WithParents([name |-> "f"])
    /\ path_parts = <<>> /\ current_parent = NoParent /\ lookups = <<>>
    /\ path_out = <<>> /\ path_pc = "start"
    /\ LibsOn /\ DispatchOff /\ MainOff /\ SummaryOff /\ RetryOff

\* lines 132-139: the list starts with the file's name; a file without
\* parents returns at once
PathStart ==
    /\ path_pc = "start"
    /\ path_parts' = <<path_file_info.name>>
    /\ IF "parents" \notin DOMAIN path_file_info \/ path_file_info.parents = <<>>
       THEN /\ path_out' = <<"/", path_file_info.name>>
            /\ path_pc' = "returned"
            /\ UNCHANGED current_parent
       ELSE /\ current_parent' = path_file_info.parents[1]
            /\ path_pc' = "loop"
            /\ UNCHANGED path_out
    /\ UNCHANGED <<drive, path_file_info, lookups,
                   libVars, extractVars, mainVars, summaryVars, retryVars>>

\* lines 140-160: one iteration of the while loop
PathLookup ==
    /\ path_pc = "loop" /\ current_parent # NoParent
    /\ LET parent_info == drive[current_parent]
           inserted == <<parent_info.info.name>> \o path_parts
       IN /\ lookups' = Append(lookups, [fileId |-> current_parent, kind |-> parent_info.kind])
          /\ IF parent_info.kind = "error"
             THEN /\ path_parts' = <<"...">> \o path_parts
                  /\ path_pc' = "break"
                  /\ UNCHANGED current_parent
             ELSE IF Get(parent_info.info, "parents", <<NoParent>>) = <<>>
             THEN \* [][0] raises IndexError after the name was inserted
                  /\ path_parts' = <<"...">> \o inserted
                  /\ path_pc' = "break"
                  /\ UNCHANGED current_parent
             ELSE /\ current_parent' = Get(parent_info.info, "parents", <<NoParent>>)[1]
                  /\ IF PastLimit(inserted)
                     THEN path_parts' = <<"...">> \o inserted /\ path_pc' = "break"
                     ELSE path_parts' = inserted /\ path_pc' = "loop"
    /\ UNCHANGED <<drive, path_file_info, path_out,
                   libVars, extractVars, mainVars, summaryVars, retryVars>>

\* line 163, after a break or when current_parent is None
PathReturn ==
    /\ \/ path_pc = "break"
       \/ path_pc = "loop" /\ current_parent = NoParent
    /\ path_out' = PathString(path_parts)
    /\ path_pc' = "returned"
    /\ UNCHANGED <<drive, path_file_info, path_parts, current_parent, lookups,
                   libVars, extractVars, mainVars, summaryVars, retryVars>>

NextPath == PathStart \/ PathLookup \/ PathReturn

\* the function runs on one thread: a step that can be taken is taken
SpecPath == InitPath /\ [][NextPath]_vars /\ WF_vars(NextPath)

no_parents == "parents" \notin DOMAIN path_file_info \/ path_file_info.parents = <<>>
path_returned == path_pc = "returned"
Dotted == Len(path_out) >= 2 /\ path_out[1] = "/" /\ path_out[2] = "..."
FolderNames == [i \in 1..Len(lookups) |-> lookups[Len(lookups) + 1 - i].fileId]
C17_Walk ==
    path_pc # "off" =>
        /\ Len(lookups) <= PathLimit
        /\ path_pc = "loop" => Len(lookups) < PathLimit
        /\ \A i \in 1..(Len(lookups) - 1) : lookups[i].kind = "ok"
        /\ (path_returned /\ Len(lookups) = PathLimit) => Dotted
        /\ (path_returned /\ lookups # <<>> /\ lookups[Len(lookups)].kind = "error") =>
              /\ Dotted
              /\ path_out = PathString(<<"...">> \o SubSeq(FolderNames, 2, Len(lookups))
                                       \o <<path_file_info.name>>)
        /\ (path_returned /\ no_parents) =>
              /\ lookups = <<>>
              /\ path_out = <<"/", path_file_info.name>>
        /\ (path_returned /\ ~no_parents /\ ~Dotted) =>
              path_out = PathString(FolderNames \o <<path_file_info.name>>)

\* C17: get_file_path terminates for every parent relation, cycles
\* included: it makes at most 100 parent lookups and then returns the path
\* with the "..." prefix; a failed lookup also ends the walk with the "..."
\* prefix; a file with no parents gives "/<name>" with no lookup.
C17_PathWalkTerminates == []C17_Walk /\ <>path_returned

\* folders A and B are each other's parent: the walk stops after 100 lookups
C17_Witness ==
    /\ path_returned /\ Len(lookups) = PathLimit /\ Dotted
    /\ lookups[1].fileId # lookups[2].fileId
    /\ lookups[1].fileId = lookups[3].fileId
    /\ Len(path_out) = 2 * (PathLimit + 2)

====
